---- MODULE Spec2Model ----
(***************************************************************************)
(* OpenAIImagesIO (captureFiles.js, lines 55-209): the adapter that routes *)
(* a chat turn to the image generation, edit or variation endpoint, builds *)
(* the JSON or multipart body, holds the request settings with the API key *)
(* and normalises the service's response.                                  *)
(*                                                                         *)
(* Strings the code inspects character by character (message text, body    *)
(* values) are sequences of one-character strings; URLs and header values, *)
(* which the code only copies and compares, are TLA+ strings.              *)
(***************************************************************************)
EXTENDS Integers, Sequences, FiniteSets, TLC

VARIABLES url, requestSettings, _raw_body, _maxCharLength, images,
          inflight, verifying, ncalls, nverify, last, handler, extracted,
          rawBodyAtConstruction, configuredUrl, lastVerifiedKey,
          contentTypeBefore

vars == <<url, requestSettings, _raw_body, _maxCharLength, images,
          inflight, verifying, ncalls, nverify, last, handler, extracted,
          rawBodyAtConstruction, configuredUrl, lastVerifiedKey,
          contentTypeBefore>>

\* ---------------------------------------------------------------- bounds
MaxTextLen == 2
MaxCalls == 2
MaxVerify == 2
MaxKeyCalls == 1
MaxData == 3

\* ------------------------------------------------------------- constants
IMAGE_GENERATION_URL == "https://api.openai.com/v1/images/generations"
IMAGE_VARIATIONS_URL == "https://api.openai.com/v1/images/variations"
IMAGE_EDIT_URL == "https://api.openai.com/v1/images/edits"
\* OpenAIUtils.IMAGES_MAX_CHAR_LENGTH, scaled down to the model's text lengths
IMAGES_MAX_CHAR_LENGTH == 2
\* imageUtils.BASE_64_PREFIX, as a character sequence
BASE_64_PREFIX == <<"data:image/png;base64,">>
DefaultMaxNumberOfFiles == 2

Absent == "<absent>"
OverrideUrl == "https://proxy.example/images"
ApplicationJson == "application/json"

\* ------------------------------------------------------- strings, values
Chars == {" ", "a"}
Texts == UNION {[1..n -> Chars] : n \in 0..MaxTextLen}

Min(a, b) == IF a < b THEN a ELSE b

RECURSIVE trimStart(_)
trimStart(s) == IF s # <<>> /\ Head(s) = " " THEN trimStart(Tail(s)) ELSE s

RECURSIVE trimEnd(_)
trimEnd(s) ==
  IF s # <<>> /\ s[Len(s)] = " " THEN trimEnd(SubSeq(s, 1, Len(s) - 1)) ELSE s

\* String.prototype.trim
trim(s) == trimEnd(trimStart(s))

\* String.prototype.substring(0, end) for end >= 0
substring0(s, end) == SubSeq(s, 1, Min(end, Len(s)))

\* JavaScript values held in a body: numbers, strings, undefined
Num(n) == [t |-> "num", n |-> n]
Str(s) == [t |-> "str", s |-> s]
Undefined == [t |-> "undef"]

Digit(d) == <<"0", "1", "2", "3", "4", "5", "6", "7", "8", "9">>[d + 1]

RECURSIVE Decimal(_)
Decimal(n) == IF n < 10 THEN <<Digit(n)>> ELSE Decimal(n \div 10) \o <<Digit(n % 10)>>

\* String(value)
String(v) ==
  CASE v.t = "num" -> Decimal(v.n)
    [] v.t = "str" -> v.s
    [] OTHER -> <<"u", "n", "d", "e", "f", "i", "n", "e", "d">>

\* A JavaScript object: its own keys in insertion order, each with a value
Keys(obj) == {obj[i].k : i \in 1..Len(obj)}
Has(obj, key) == key \in Keys(obj)
Get(obj, key) == obj[CHOOSE i \in 1..Len(obj) : obj[i].k = key].v

\* obj[key] = value
Put(obj, key, value) ==
  IF Has(obj, key)
    THEN [i \in 1..Len(obj) |-> IF obj[i].k = key THEN [k |-> key, v |-> value] ELSE obj[i]]
    ELSE Append(obj, [k |-> key, v |-> value])

RECURSIVE Delete(_, _)
\* delete obj[key]
Delete(obj, key) ==
  IF obj = <<>> THEN <<>>
  ELSE IF Head(obj).k = key THEN Delete(Tail(obj), key)
  ELSE <<Head(obj)>> \o Delete(Tail(obj), key)

RECURSIVE JSONCopy(_)
\* JSON.parse(JSON.stringify(obj)): numbers and strings survive, a key whose
\* value is undefined is dropped
JSONCopy(obj) ==
  IF obj = <<>> THEN <<>>
  ELSE IF Head(obj).v.t = "undef" THEN JSONCopy(Tail(obj))
  ELSE <<Head(obj)>> \o JSONCopy(Tail(obj))

\* ------------------------------------------------------ request settings
\* RequestSettings: the optional url, and the headers object when there is one
EmptySettings ==
  [url |-> Absent, hasHeaders |-> FALSE, Authorization |-> Absent, ContentType |-> Absent]

ApiKeys == {"k1", "k2"}
Bearer(key) == "Bearer " \o key

\* OpenAIUtils.buildRequestSettings: the settings with the key merged in as
\* the authentication header, everything else kept
buildRequestSettings(key, settings) ==
  [settings EXCEPT !.hasHeaders = TRUE, !.Authorization = Bearer(key)]

\* ------------------------------------------------------------ constructor
DefaultImages == [acceptedFormats |-> ".png", maxNumberOfFiles |-> DefaultMaxNumberOfFiles]

FilesValue(formats, maxFiles) ==
  [t |-> "files", acceptedFormats |-> formats, maxNumberOfFiles |-> maxFiles]
RequestValue(settings) == [t |-> "request", r |-> settings]

\* processImagesConfig: only the fields the caller provided are overridden
\* (the rendering of the info modal's markdown is not part of the model)
processImagesConfig(files, _images) ==
  [acceptedFormats |->
     IF files.acceptedFormats # Absent THEN files.acceptedFormats ELSE _images.acceptedFormats,
   maxNumberOfFiles |->
     IF files.maxNumberOfFiles # 0 THEN files.maxNumberOfFiles ELSE _images.maxNumberOfFiles]

cleanConfig(config) == Delete(Delete(config, "files"), "request")

\* The fields of a new OpenAIImagesIO(aiAssistant, key). aiAssistant.config is
\* openAI.completions: [type |-> "undefined" | "boolean" | "object", obj |-> object];
\* key = "" stands for no key
constructor(aiAssistant, key) ==
  LET config == aiAssistant.config
      isObject == config.type = "object"
      settings == IF isObject /\ Has(config.obj, "request")
                    THEN Get(config.obj, "request").r ELSE EmptySettings
  IN [_maxCharLength |->
        IF aiAssistant.inputCharacterLimit # 0
          THEN aiAssistant.inputCharacterLimit ELSE IMAGES_MAX_CHAR_LENGTH,
      requestSettings |->
        IF key # "" THEN buildRequestSettings(key, settings) ELSE EmptySettings,
      images |->
        IF isObject /\ Has(config.obj, "files")
          THEN processImagesConfig(Get(config.obj, "files"), DefaultImages)
          ELSE DefaultImages,
      _raw_body |-> IF isObject THEN cleanConfig(config.obj) ELSE <<>>]

\* ------------------------------------------------------ construction inputs
TemplateOpts ==
  { <<>>,
    <<[k |-> "n", v |-> Num(1)], [k |-> "user", v |-> Undefined]>>,
    <<[k |-> "prompt", v |-> Str(<<"b">>)], [k |-> "n", v |-> Num(10)],
      [k |-> "files", v |-> FilesValue(Absent, 3)]>> }

RequestOpts ==
  { <<>>,
    <<[k |-> "request", v |-> RequestValue([EmptySettings EXCEPT !.url = OverrideUrl])]>>,
    <<[k |-> "request", v |-> RequestValue(
        [EmptySettings EXCEPT !.hasHeaders = TRUE, !.ContentType = ApplicationJson])]>> }

Configs ==
  { [type |-> "undefined", obj |-> <<>>], [type |-> "boolean", obj |-> <<>>] } \cup
  { [type |-> "object", obj |-> t \o r] : t \in TemplateOpts, r \in RequestOpts }

AiAssistants ==
  { [config |-> c, inputCharacterLimit |-> l] : c \in Configs, l \in {0, 1} }

ConfigUrl(config) ==
  IF config.type = "object" /\ Has(config.obj, "request")
    THEN Get(config.obj, "request").r.url ELSE Absent

\* ----------------------------------------------------------- body building
NoFile == "<no file>"
AllFiles == <<"image.png", "mask.png", "third.png">>

\* files[i] of a JavaScript array, zero-based; undefined beyond its length
FileAt(files, i) == IF i + 1 <= Len(files) THEN files[i + 1] ELSE NoFile

Message(content) == [role |-> "user", content |-> content]
Latest(messages) == messages[Len(messages)]

\* preprocessBody without the substring(0, maxCharLength)
preprocessBody_untruncated(body, messages, maxCharLength) ==
  LET bodyCopy == JSONCopy(body)
      mostRecentMessageText == Latest(messages).content
  IN [bodyCopy |->
        IF trim(mostRecentMessageText) # <<>>
          THEN Put(bodyCopy, "prompt", Str(mostRecentMessageText))
          ELSE bodyCopy,
      body |-> body]

\* preprocessBody with bodyCopy = body instead of a deep copy: the prompt is
\* written into the argument object
preprocessBody_inPlace(body, messages, maxCharLength) ==
  LET mostRecentMessageText == Latest(messages).content
      written ==
        IF trim(mostRecentMessageText) # <<>>
          THEN Put(body, "prompt", Str(substring0(mostRecentMessageText, maxCharLength)))
          ELSE body
  IN [bodyCopy |-> written, body |-> written]

\* preprocessBody: bodyCopy is what it returns; body is the argument object
\* as the call leaves it (the copy is a separate object, so it is untouched)
preprocessBody(body, messages, maxCharLength) ==
  LET bodyCopy == JSONCopy(body)
      mostRecentMessageText == Latest(messages).content
  IN [bodyCopy |->
        IF trim(mostRecentMessageText) # <<>>
          THEN Put(bodyCopy, "prompt", Str(substring0(mostRecentMessageText, maxCharLength)))
          ELSE bodyCopy,
      body |-> body]

FilePart(name, file) == [name |-> name, kind |-> "file", val |-> <<file>>]
StringPart(name, value) == [name |-> name, kind |-> "string", val |-> value]

\* createFormDataBody that never appends the mask
createFormDataBody_noMask(body, image, mask) ==
  <<FilePart("image", image)>>
    \o [i \in 1..Len(body) |-> StringPart(body[i].k, String(body[i].v))]

\* createFormDataBody: image, then mask when given, then every key of body
\* with String(value)
createFormDataBody(body, image, mask) ==
  <<FilePart("image", image)>>
    \o (IF mask # NoFile THEN <<FilePart("mask", mask)>> ELSE <<>>)
    \o [i \in 1..Len(body) |-> StringPart(body[i].k, String(body[i].v))]

\* callApiWithImage that looks only at the text, not at files[1], to choose edit
callApiWithImage_textOnly(this, messages, files) ==
  IF trim(Latest(messages).content) # <<>>
    THEN LET p == preprocessBody(this._raw_body, messages, this._maxCharLength)
         IN [url |-> IF this.requestSettings.url # Absent
                       THEN this.requestSettings.url ELSE IMAGE_EDIT_URL,
             preprocessed |-> TRUE,
             body |-> p.bodyCopy,
             formData |-> createFormDataBody(p.bodyCopy, FileAt(files, 0), FileAt(files, 1)),
             _raw_body |-> p.body]
    ELSE [url |-> IF this.requestSettings.url # Absent
                    THEN this.requestSettings.url ELSE IMAGE_VARIATIONS_URL,
          preprocessed |-> FALSE,
          body |-> <<>>,
          formData |-> createFormDataBody(this._raw_body, FileAt(files, 0), NoFile),
          _raw_body |-> this._raw_body]

\* callApiWithImage up to the hand-over to the transport: the url it sets,
\* the form it builds and the template as it leaves it
callApiWithImage(this, messages, files) ==
  IF FileAt(files, 1) # NoFile \/ trim(Latest(messages).content) # <<>>
    THEN LET p == preprocessBody(this._raw_body, messages, this._maxCharLength)
         IN [url |-> IF this.requestSettings.url # Absent
                       THEN this.requestSettings.url ELSE IMAGE_EDIT_URL,
             preprocessed |-> TRUE,
             body |-> p.bodyCopy,
             formData |-> createFormDataBody(p.bodyCopy, FileAt(files, 0), FileAt(files, 1)),
             _raw_body |-> p.body]
    ELSE [url |-> IF this.requestSettings.url # Absent
                    THEN this.requestSettings.url ELSE IMAGE_VARIATIONS_URL,
          preprocessed |-> FALSE,
          body |-> <<>>,
          formData |-> createFormDataBody(this._raw_body, FileAt(files, 0), NoFile),
          _raw_body |-> this._raw_body]

\* callApi without the check of requestSettings.headers
callApi_noHeaderCheck(this, messages, files) ==
  IF FileAt(files, 0) # NoFile
    THEN LET w == callApiWithImage(this, messages, files)
         IN [threw |-> FALSE, url |-> w.url, multipart |-> TRUE,
             preprocessed |-> w.preprocessed, body |-> w.body,
             formData |-> w.formData, _raw_body |-> w._raw_body]
  ELSE LET p == preprocessBody(this._raw_body, messages, this._maxCharLength)
       IN [threw |-> FALSE,
           url |-> IF this.requestSettings.url # Absent
                     THEN this.requestSettings.url ELSE IMAGE_GENERATION_URL,
           multipart |-> FALSE, preprocessed |-> TRUE, body |-> p.bodyCopy,
           formData |-> <<>>, _raw_body |-> p.body]

\* callApi up to the hand-over to the transport, or the throw
callApi(this, messages, files) ==
  IF ~this.requestSettings.hasHeaders
    THEN [threw |-> TRUE, url |-> this.url, multipart |-> FALSE, preprocessed |-> FALSE,
          body |-> <<>>, formData |-> <<>>, _raw_body |-> this._raw_body]
  ELSE IF FileAt(files, 0) # NoFile
    THEN LET w == callApiWithImage(this, messages, files)
         IN [threw |-> FALSE, url |-> w.url, multipart |-> TRUE,
             preprocessed |-> w.preprocessed, body |-> w.body,
             formData |-> w.formData, _raw_body |-> w._raw_body]
  ELSE LET p == preprocessBody(this._raw_body, messages, this._maxCharLength)
       IN [threw |-> FALSE,
           url |-> IF this.requestSettings.url # Absent
                     THEN this.requestSettings.url ELSE IMAGE_GENERATION_URL,
           multipart |-> FALSE, preprocessed |-> TRUE, body |-> p.bodyCopy,
           formData |-> <<>>, _raw_body |-> p.body]

\* addKey that calls onSuccess without storing the built settings
addKey_notStored(settings, key) == settings

\* addKey: the request settings after a verified key is added
addKey(settings, key) == buildRequestSettings(key, settings)

\* ------------------------------------------------------- result normaliser
NoError == [present |-> FALSE, message |-> ""]
ErrorOf(message) == [present |-> TRUE, message |-> message]

RECURSIVE MapImageData(_)
MapImageData(data) ==
  IF data = <<>> THEN <<>>
  ELSE LET imageData == Head(data)
       IN <<IF imageData.url # Absent
              THEN imageData
              ELSE [base64 |-> BASE_64_PREFIX \o String(imageData.b64_json)]>>
            \o MapImageData(Tail(data))

\* extractResultData without the check of result.error
extractResultData_ignoreError(result) ==
  [threw |-> FALSE, thrown |-> "", results |-> MapImageData(result.data)]

\* extractResultData: throws result.error.message, or maps result.data
extractResultData(result) ==
  IF result.error.present
    THEN [threw |-> TRUE, thrown |-> result.error.message, results |-> <<>>]
    ELSE [threw |-> FALSE, thrown |-> "", results |-> MapImageData(result.data)]

ImageDatas ==
  { [url |-> u, b64_json |-> b] :
      u \in {Absent, "http://x"}, b \in {Undefined, Str(<<"A", "A">>)} }
Responses ==
  { [error |-> e, data |-> d] :
      e \in {NoError, ErrorOf("bad key")},
      d \in UNION {[1..n -> ImageDatas] : n \in 0..MaxData} }

\* --------------------------------------------------------------- transport
\* HTTPRequest.request: the request goes out with the adapter's url and the
\* headers of its request settings as they are when it is invoked
request(ioUrl, settings) ==
  [url |-> ioUrl, Authorization |-> settings.Authorization, ContentType |-> settings.ContentType]

\* RequestHeaderUtils.temporarilyRemoveContentType, before the request ...
removeContentType(settings) == [settings EXCEPT !.ContentType = Absent]
\* ... and once the request has completed
restoreContentType(settings, contentType) == [settings EXCEPT !.ContentType = contentType]

\* -------------------------------------------------------------------- state
NoCall ==
  [op |-> "none", threw |-> FALSE, sent |-> request("", EmptySettings),
   multipart |-> FALSE, duringMultipart |-> FALSE, preprocessed |-> FALSE,
   body |-> <<>>, formData |-> <<>>, template |-> <<>>, text |-> <<>>, files |-> <<>>,
   overrideUrl |-> Absent]
NoHandler == [name |-> "none", key |-> ""]
NothingExtracted == [done |-> FALSE, result |-> [error |-> NoError, data |-> <<>>],
                     out |-> [threw |-> FALSE, thrown |-> "", results |-> <<>>]]

Init ==
  \E aiAssistant \in AiAssistants, key \in {"", "k1"} :
    LET io == constructor(aiAssistant, key)
    IN /\ url = ""
       /\ requestSettings = io.requestSettings
       /\ _raw_body = io._raw_body
       /\ _maxCharLength = io._maxCharLength
       /\ images = io.images
       /\ inflight = {}
       /\ verifying = {}
       /\ ncalls = 0
       /\ nverify = 0
       /\ last = NoCall
       /\ handler = NoHandler
       /\ extracted = NothingExtracted
       /\ rawBodyAtConstruction = io._raw_body
       /\ configuredUrl = ConfigUrl(aiAssistant.config)
       /\ lastVerifiedKey = ""
       /\ contentTypeBefore = io.requestSettings.ContentType

\* message histories: an earlier turn, then the latest message
Histories == { <<Message(<<"a">>), Message(t)>> : t \in Texts }

\* callApi(messages, completionsHandlers, _, files)
CallApi(messages, files) ==
  /\ ncalls < MaxCalls
  /\ LET this == [url |-> url, requestSettings |-> requestSettings,
                  _raw_body |-> _raw_body, _maxCharLength |-> _maxCharLength]
         r == callApi(this, messages, files)
         during == IF r.multipart THEN removeContentType(requestSettings) ELSE requestSettings
     IN /\ url' = r.url
        /\ _raw_body' = r._raw_body
        /\ requestSettings' = IF r.threw THEN requestSettings ELSE during
        /\ inflight' =
             IF r.threw THEN inflight
             ELSE inflight \cup {[id |-> ncalls + 1, multipart |-> r.multipart,
                                  contentType |-> requestSettings.ContentType]}
        /\ contentTypeBefore' =
             IF ~r.threw /\ inflight = {}
               THEN requestSettings.ContentType ELSE contentTypeBefore
        /\ last' = [op |-> "callApi", threw |-> r.threw,
                    sent |-> IF r.threw THEN request("", EmptySettings) ELSE request(r.url, during),
                    multipart |-> r.multipart,
                    duringMultipart |-> \E c \in inflight : c.multipart,
                    preprocessed |-> r.preprocessed,
                    body |-> r.body, formData |-> r.formData,
                    template |-> _raw_body,
                    text |-> Latest(messages).content, files |-> files,
                    overrideUrl |-> requestSettings.url]
  /\ ncalls' = ncalls + 1
  /\ UNCHANGED <<_maxCharLength, images, verifying, nverify, handler, extracted,
                 rawBodyAtConstruction, configuredUrl, lastVerifiedKey>>

\* the transport finishes a request and calls back
Complete(c) ==
  /\ c \in inflight
  /\ inflight' = inflight \ {c}
  /\ requestSettings' =
       IF c.multipart THEN restoreContentType(requestSettings, c.contentType)
       ELSE requestSettings
  /\ UNCHANGED <<url, _raw_body, _maxCharLength, images, verifying, ncalls, nverify,
                 last, handler, extracted, rawBodyAtConstruction, configuredUrl,
                 lastVerifiedKey, contentTypeBefore>>

\* verifyKey: OpenAIUtils.verifyKey starts checking the key with the service
VerifyKey(key) ==
  /\ nverify < MaxVerify
  /\ key \notin verifying
  /\ verifying' = verifying \cup {key}
  /\ nverify' = nverify + 1
  /\ handler' = [name |-> "onLoad", key |-> key]
  /\ UNCHANGED <<url, requestSettings, _raw_body, _maxCharLength, images, inflight,
                 ncalls, last, extracted, rawBodyAtConstruction, configuredUrl,
                 lastVerifiedKey, contentTypeBefore>>

\* the service accepts the key: addKey.bind(this, onSuccess) runs
KeyVerified(key) ==
  /\ key \in verifying
  /\ verifying' = verifying \ {key}
  /\ requestSettings' = addKey(requestSettings, key)
  /\ handler' = [name |-> "onSuccess", key |-> key]
  /\ lastVerifiedKey' = key
  /\ UNCHANGED <<url, _raw_body, _maxCharLength, images, inflight, ncalls, nverify,
                 last, extracted, rawBodyAtConstruction, configuredUrl,
                 contentTypeBefore>>

\* the service rejects the key: onFail runs
KeyRejected(key) ==
  /\ key \in verifying
  /\ verifying' = verifying \ {key}
  /\ handler' = [name |-> "onFail", key |-> key]
  /\ UNCHANGED <<url, requestSettings, _raw_body, _maxCharLength, images, inflight,
                 ncalls, nverify, last, extracted, rawBodyAtConstruction,
                 configuredUrl, lastVerifiedKey, contentTypeBefore>>

\* calls with every text and every number of files, and their completions
Next ==
  \/ \E messages \in Histories, n \in 0..images.maxNumberOfFiles :
       CallApi(messages, SubSeq(AllFiles, 1, n))
  \/ \E c \in inflight : Complete(c)

Spec == Init /\ [][Next]_vars

\* key verification interleaved with calls (an empty and a non-empty text)
KeyHistories == { <<Message(<<"a">>), Message(t)>> : t \in {<<>>, <<"a">>} }

NextKeys ==
  \/ \E key \in ApiKeys : VerifyKey(key)
  \/ \E key \in ApiKeys : KeyVerified(key)
  \/ \E key \in ApiKeys : KeyRejected(key)
  \/ \E messages \in KeyHistories, n \in 0..images.maxNumberOfFiles :
       ncalls < MaxKeyCalls /\ CallApi(messages, SubSeq(AllFiles, 1, n))
  \/ \E c \in inflight : Complete(c)

SpecKeys == Init /\ [][NextKeys]_vars

\* extractResultData(result), applied to the responses of the service
ExtractResultData(result) ==
  /\ ~extracted.done
  /\ extracted' = [done |-> TRUE, result |-> result, out |-> extractResultData(result)]
  /\ UNCHANGED <<url, requestSettings, _raw_body, _maxCharLength, images, inflight,
                 verifying, ncalls, nverify, last, handler, rawBodyAtConstruction,
                 configuredUrl, lastVerifiedKey, contentTypeBefore>>

NextExtract == \E result \in Responses : ExtractResultData(result)

SpecExtract == Init /\ [][NextExtract]_vars

\* ------------------------------------------------------------------ claims
Sent == last.op = "callApi" /\ ~last.threw
TextIsEmpty == trim(last.text) = <<>>
PromptOf(obj) == IF Has(obj, "prompt") THEN <<Get(obj, "prompt")>> ELSE <<>>

\* C1: with headers set and no override url, the url the transport is invoked
\* with (and the adapter's url field) is the endpoint of the call's own
\* operation: generation without files, variation with one file and empty
\* trimmed text, edit with one file and text or with two files.
C1_UrlIsOwnOperationsEndpoint ==
  (Sent /\ last.overrideUrl = Absent) =>
    /\ url = last.sent.url
    /\ Len(last.files) = 0 => url = IMAGE_GENERATION_URL
    /\ (Len(last.files) = 1 /\ TextIsEmpty) => url = IMAGE_VARIATIONS_URL
    /\ (Len(last.files) = 1 /\ ~TextIsEmpty) => url = IMAGE_EDIT_URL
    /\ Len(last.files) = 2 => url = IMAGE_EDIT_URL

\* an edit with two files and empty text, issued while an earlier generation
\* call is still in flight
C1_Witness ==
  /\ Sent /\ ncalls = 2 /\ last.overrideUrl = Absent
  /\ Len(last.files) = 2 /\ TextIsEmpty
  /\ url = IMAGE_EDIT_URL
  /\ \E c \in inflight : c.id = 1 /\ ~c.multipart

\* C2: when the caller configured an override url, every dispatched call
\* targets it, whether the key came at construction or from verifyKey.
C2_OverrideUrlAlwaysWins ==
  (Sent /\ configuredUrl # Absent) => last.sent.url = configuredUrl

\* C3: the authentication header held is the one of the most recent successful
\* verification, calls issued afterwards carry it, and a failed verification
\* leaves the request settings as they were.
C3_VerifiedKeyHeld ==
  [][ /\ lastVerifiedKey' # "" =>
           /\ requestSettings'.hasHeaders
           /\ requestSettings'.Authorization = Bearer(lastVerifiedKey')
      /\ (ncalls' = ncalls + 1 /\ lastVerifiedKey # "") =>
           /\ ~last'.threw
           /\ last'.sent.Authorization = Bearer(lastVerifiedKey)
      /\ (verifying' # verifying /\ handler'.name = "onFail") =>
           requestSettings' = requestSettings ]_vars

\* a call that carries the second verified key, which replaced the first
C3_Witness ==
  /\ nverify = 2 /\ lastVerifiedKey = "k2"
  /\ Sent /\ last.sent.Authorization = Bearer("k2")
  /\ handler = [name |-> "onSuccess", key |-> "k2"]

\* C4: a call issued while a multipart call is in flight is sent with the
\* configured content-type header still present.
C4_RemovalSeenOnlyByOwnCall ==
  (Sent /\ ~last.multipart /\ last.duringMultipart) =>
    last.sent.ContentType = contentTypeBefore

\* C5: once no call is in flight the content-type header has the value it had
\* before the calls were issued.
C5_ContentTypeRestored ==
  inflight = {} => requestSettings.ContentType = contentTypeBefore

\* C6: callApi without headers in the request settings throws for every text
\* and every number of files, hands nothing to the transport and leaves url
\* and request settings unchanged.
C6_ThrowsWithoutHeaders ==
  [][ (ncalls' = ncalls + 1 /\ ~requestSettings.hasHeaders) =>
        /\ last'.op = "callApi" /\ last'.threw
        /\ url' = url
        /\ requestSettings' = requestSettings
        /\ inflight' = inflight ]_vars

\* a throwing call with two files and text, while a key is still being verified
C6_Witness ==
  /\ last.op = "callApi" /\ last.threw
  /\ Len(last.files) = 2 /\ ~TextIsEmpty
  /\ verifying # {} /\ inflight = {}

\* C7 as stated: the prompt is the trimmed text truncated to the maximum
\* length; with empty trimmed text the prompt is the template's, or absent.
C7_PromptIsTrimmedText ==
  (last.op = "callApi" /\ last.preprocessed) =>
    IF ~TextIsEmpty
      THEN PromptOf(last.body) = <<Str(substring0(trim(last.text), _maxCharLength))>>
      ELSE PromptOf(last.body) = PromptOf(last.template)

\* C7 amended: the prompt is the text as written (whitespace kept) truncated to
\* the maximum length, whenever the trimmed text is non-empty; with empty
\* trimmed text the prompt is the template's, or absent.
C7_PromptIsTruncatedText ==
  (last.op = "callApi" /\ last.preprocessed) =>
    IF ~TextIsEmpty
      THEN /\ PromptOf(last.body) = <<Str(substring0(last.text, _maxCharLength))>>
           /\ Len(Get(last.body, "prompt").s) <= _maxCharLength
      ELSE PromptOf(last.body) = PromptOf(last.template)

\* the text " a" cut to one character: the prompt is the leading blank
C7_Witness ==
  /\ last.op = "callApi" /\ last.preprocessed
  /\ last.text = <<" ", "a">> /\ _maxCharLength = 1
  /\ PromptOf(last.body) = <<Str(<<" ">>)>>

\* C8: the raw body template is what it was when construction finished.
C8_TemplateNeverMutated == _raw_body = rawBodyAtConstruction

\* two calls, the latest an edit whose body got a prompt the template lacks
C8_Witness ==
  /\ ncalls = 2 /\ Sent /\ last.multipart /\ last.preprocessed
  /\ Has(last.body, "prompt") /\ ~Has(_raw_body, "prompt") /\ _raw_body # <<>>

\* C9: a response with an error fails with the error's message itself and
\* yields no results; otherwise the results match the data entries in number
\* and order, an entry with a url yielding a result with that url and an entry
\* without one yielding base64 = prefix followed by the entry's payload.
C9_ResultsNormalised ==
  extracted.done =>
    LET result == extracted.result
        out == extracted.out
    IN IF result.error.present
         THEN out.threw /\ out.thrown = result.error.message /\ out.results = <<>>
         ELSE /\ ~out.threw
              /\ Len(out.results) = Len(result.data)
              /\ \A i \in 1..Len(result.data) :
                   LET imageData == result.data[i]
                       image == out.results[i]
                   IN IF imageData.url # Absent
                        THEN "url" \in DOMAIN image /\ image.url = imageData.url
                        ELSE imageData.b64_json.t = "str" =>
                               image = [base64 |-> BASE_64_PREFIX \o imageData.b64_json.s]

\* a response whose first entry has a url and whose second has only a payload
C9_Witness ==
  /\ extracted.done /\ ~extracted.result.error.present
  /\ Len(extracted.result.data) = 2
  /\ extracted.result.data[1].url = "http://x"
  /\ extracted.result.data[2] = [url |-> Absent, b64_json |-> Str(<<"A", "A">>)]
  /\ extracted.out.results[2] = [base64 |-> BASE_64_PREFIX \o <<"A", "A">>]

\* the binary parts of a form: image, and mask when a second file is attached
BinaryPartsOk(form, files) ==
  /\ form # <<>>
  /\ form[1] = FilePart("image", files[1])
  /\ Len(files) = 1 => \A i \in 1..Len(form) : form[i].kind = "file" => i = 1
  /\ Len(files) >= 2 =>
       /\ Len(form) >= 2
       /\ form[2] = FilePart("mask", files[2])
       /\ \A i \in 1..Len(form) : form[i].kind = "file" => i <= 2
BodyKindOk ==
  /\ last.multipart <=> Len(last.files) >= 1
  /\ ~last.multipart => last.formData = <<>>
NumberOfBinaryParts == IF Len(last.files) >= 2 THEN 2 ELSE 1

\* C10 as stated: JSON exactly when no file is attached, else a form with
\* image first, mask exactly when a second file is attached, and after them
\* every scalar field of the raw body template with its value as a string.
C10_FormCarriesTemplateFields ==
  Sent =>
    /\ BodyKindOk
    /\ last.multipart =>
         /\ BinaryPartsOk(last.formData, last.files)
         /\ \A i \in 1..Len(last.template) :
              last.template[i].v.t # "undef" =>
                \E j \in (NumberOfBinaryParts + 1)..Len(last.formData) :
                  last.formData[j] =
                    StringPart(last.template[i].k, String(last.template[i].v))

\* C10 amended: as stated, except that the string parts are the fields of the
\* body built for the call: the template itself for a variation; for an edit
\* the template's copy, whose prompt is the message text when there is text.
C10_FormCarriesBodyFields ==
  Sent =>
    /\ BodyKindOk
    /\ last.multipart =>
         LET form == last.formData
             fields == IF last.preprocessed THEN last.body ELSE last.template
             nb == NumberOfBinaryParts
         IN /\ BinaryPartsOk(form, last.files)
            /\ Len(form) = nb + Len(fields)
            /\ \A i \in 1..Len(fields) :
                 form[nb + i] = StringPart(fields[i].k, String(fields[i].v))
            /\ \A i \in 1..Len(last.template) :
                 (/\ last.template[i].v.t # "undef"
                  /\ (last.template[i].k = "prompt" => TextIsEmpty \/ ~last.preprocessed)) =>
                   \E j \in (nb + 1)..Len(form) :
                     form[j] = StringPart(last.template[i].k, String(last.template[i].v))

\* an edit with image and mask whose form carries the number 10 as "10" and
\* the message text in place of the template's prompt
C10_Witness ==
  /\ Sent /\ Len(last.files) = 2 /\ last.text = <<"a">>
  /\ last.template =
       <<[k |-> "prompt", v |-> Str(<<"b">>)], [k |-> "n", v |-> Num(10)]>>
  /\ last.formData =
       <<FilePart("image", "image.png"), FilePart("mask", "mask.png"),
         StringPart("prompt", <<"a">>), StringPart("n", <<"1", "0">>)>>
====
